---- MODULE Spec2Model ----
(***************************************************************************)
(* Model of the Instagram MCP server (InstagramMCPServer): the tool-call   *)
(* handler of get_instagram_posts, its argument validation, the progress   *)
(* callback, the success and soft-error envelopes, the SIGINT handler and  *)
(* cleanup.  The engine behind instagramService.fetchPosts and the two     *)
(* close() operations are collaborators whose code is not part of the      *)
(* server file; they are modelled from the written specification.          *)
(***************************************************************************)
EXTENDS Integers, Sequences, FiniteSets, TLC

(* ------------------------------ bounds --------------------------------- *)
\* Number of tool calls that can be open (received, not yet retired) at once.
MaxCalls == 1
\* Number of posts on a profile's timeline (what the data source can yield).
TimelineLen == 4
\* Largest startFrom offset a caller passes.
MaxStart == 1
\* Number of interrupt signals delivered to the process.
MaxInterrupts == 1
\* Number of successful calls a paging caller chains one after the other.
MaxChain == 3

(* ------------------------- program constants --------------------------- *)
\* hasMore: posts.length === 3, and the data source's per-round ceiling.
BatchSize == 3

Calls == 1..MaxCalls
Interrupts == 1..MaxInterrupts

Min(a, b) == IF a <= b THEN a ELSE b
Max(a, b) == IF a >= b THEN a ELSE b

(* --------------------------- JavaScript values ------------------------- *)
\* A JSON value as the handler sees it: its typeof tag and its payload.
Undef == [t |-> "undefined", n |-> 0, s |-> ""]
Num(k) == [t |-> "number", n |-> k, s |-> ""]
Str(x) == [t |-> "string", n |-> 0, s |-> x]
TypeOf(v) == v.t

\* request.params.arguments: an object with three optional properties, or
\* something that is no object at all.
NoArgs == [obj |-> FALSE, username |-> Undef, limit |-> Undef, startFrom |-> Undef]
Args(u, l, s) == [obj |-> TRUE, username |-> u, limit |-> l, startFrom |-> s]

ToolName == "get_instagram_posts"
ToolNames == {ToolName, "get_profile"}

Usernames == {Str("alice")}
NumericLimits == {Num(k) : k \in (-1)..(BatchSize + 1)}
Limits == {Undef, Str("all"), Str("many")} \cup NumericLimits
StartFroms == {Undef, Str("5")} \cup {Num(k) : k \in 0..MaxStart}

\* The argument objects a caller sends: every well-typed combination, and the
\* ill-typed ones (no object, username missing or not a string).
ArgValues ==
  {NoArgs}
    \cup {Args(u, l, s) : u \in Usernames, l \in Limits, s \in StartFroms}
    \cup {Args(u, Num(2), Num(0)) : u \in {Undef, Num(7)}}

(* ------------------------------ validation ----------------------------- *)
\* A slip in the validation: the limit is not looked at.
isValidFetchArgs_NoLimitCheck(args) ==
  IF ~args.obj THEN FALSE
  ELSE IF TypeOf(args.username) # "string" THEN FALSE
  ELSE IF args.startFrom # Undef /\ TypeOf(args.startFrom) # "number" THEN FALSE
  ELSE TRUE

isValidFetchArgs(args) ==
  IF ~args.obj THEN FALSE
  ELSE IF TypeOf(args.username) # "string" THEN FALSE
  ELSE IF /\ args.limit # Undef
          /\ TypeOf(args.limit) # "number"
          /\ args.limit # Str("all") THEN FALSE
  ELSE IF args.startFrom # Undef /\ TypeOf(args.startFrom) # "number" THEN FALSE
  ELSE TRUE

(* -------------------------------- state -------------------------------- *)
VARIABLES
  transport,   \* the protocol transport: "connecting", "connected", "failed", "closed"
  session,     \* the browser session owned by instagramService: "open", "closed"
  proc,        \* the process: "running" or "exited"
  exitCode,    \* the exit status: 0 from process.exit(0), 1 from the runtime's
               \* abort on an unhandled rejection, -1 while running
  sigint,      \* per delivered interrupt, where its handler stands
  unhandled,   \* TRUE once a promise rejected with nobody handling it
  pc,          \* per call: "idle", "fetching" (awaiting fetchPosts), "responded"
  req,         \* per call: the request, [name, args]
  invoked,     \* per call: how many times fetchPosts was invoked for it
  engine,      \* per call: fetchPosts is "none", "running", "resolved", "rejected"
  rounds,      \* per call: the number of records each extraction round returned
  posts,       \* per call: the records the engine has accumulated
  raised,      \* per call: the updates the engine passed to the progress callback
  notified,    \* per call: the 'progress' notifications the server emitted
  response,    \* per call: what the handler returned or threw
  caller       \* the caller: whether it pages through a profile, and the
               \* successful responses it has received while doing so

vars == <<transport, session, proc, exitCode, sigint, unhandled,
          pc, req, invoked, engine, rounds, posts, raised, notified, response,
          caller>>
procVars == <<transport, session, proc, exitCode, sigint>>
callVars == <<pc, req, invoked, engine, rounds, posts, raised, notified, response>>

NoRequest == [name |-> "", args |-> NoArgs]
NoResponse == [kind |-> "none"]

(* --------------------------- thrown values ----------------------------- *)
\* What fetchPosts can reject with: an Error carrying a message (the session is
\* unavailable, the extraction failed), or a value that is no Error.
Err(m) == [isError |-> TRUE, message |-> m, value |-> Undef]
NonErr(v) == [isError |-> FALSE, message |-> "", value |-> v]
Thrown == {Err("No active Instagram session"), Err("Failed to extract posts"),
           NonErr(Str("timeout"))}

\* String(v) of the values above.
String(v) == IF TypeOf(v) = "string" THEN v.s ELSE "undefined"

(* ------------------------------ envelopes ------------------------------ *)
\* A slip in the cursor default: the start offset is always taken as 0.
OrZero_IgnoresCursor(v) == 0

\* args.startFrom || 0
OrZero(v) == IF TypeOf(v) = "number" /\ v.n # 0 THEN v.n ELSE 0

McpError(code, message) == [kind |-> "McpError", code |-> code, message |-> message]

\* A slip in the heuristic: any non-empty batch is taken to promise more.
HasMore_NonEmpty(n) == n > 0

\* hasMore: posts.length === 3
HasMore(n) == n = 3

SuccessEnvelope(args, ps) ==
  [kind |-> "result", isError |-> FALSE,
   content |-> [type |-> "json",
                posts |-> ps,
                pagination |->
                  [currentBatch |-> [start |-> OrZero(args.startFrom),
                                     end |-> OrZero(args.startFrom) + Len(ps),
                                     size |-> Len(ps)],
                   nextStartFrom |-> OrZero(args.startFrom) + Len(ps),
                   hasMore |-> HasMore(Len(ps))]]]

ErrorText(e) == IF e.isError THEN e.message ELSE String(e.value)

\* A slip in the catch: the failure is rethrown as a protocol error.
SoftError_Rethrown(e) == McpError("InternalError", ErrorText(e))

\* A slip in the catch: the error flag is put on a success-shaped payload.
SoftError_FlagsPayload(e) ==
  [kind |-> "result", isError |-> TRUE,
   content |-> [type |-> "json", posts |-> <<>>,
                pagination |-> [currentBatch |-> [start |-> 0, end |-> 0, size |-> 0],
                                nextStartFrom |-> 0, hasMore |-> FALSE]]]

SoftError(e) ==
  [kind |-> "result", isError |-> TRUE,
   content |-> [type |-> "text", text |-> "Instagram error: " \o ErrorText(e)]]

(* -------------------------- progress callback -------------------------- *)
Plain(m) == [kind |-> "string", message |-> m]
Detailed(m, p, t, k) ==
  [kind |-> "object", message |-> m, progress |-> p, total |-> t, keepAlive |-> k]

\* A slip in the forwarding: a structured update loses its numbers and flag.
ProgressNotification_AsPlain(u) ==
  [method |-> "progress",
   params |-> [message |-> u.message, progress |-> 0, total |-> 0]]

\* The notification the callback hands to this.server.notification.
ProgressNotification(u) ==
  IF u.kind = "string"
    THEN [method |-> "progress",
          params |-> [message |-> u.message, progress |-> 0, total |-> 0]]
    ELSE [method |-> "progress",
          params |-> [message |-> u.message, progress |-> u.progress,
                      total |-> u.total, keepAlive |-> u.keepAlive]]

\* A slip in the emission: the newest notification goes out ahead of the others.
ProgressCallback_Prepends(emitted, u) == <<ProgressNotification(u)>> \o emitted

\* One invocation of the callback: the emitted notifications after it.
ProgressCallback(emitted, u) == Append(emitted, ProgressNotification(u))

(* ------------------- the engine behind fetchPosts ---------------------- *)
\* The cursor the engine resumes from: startFrom, 0 when absent.
StartCursor(args) == IF TypeOf(args.startFrom) = "number" THEN args.startFrom.n ELSE 0

\* How many records one round asks the extractor for: the per-round batch size
\* in 'all' mode and when no limit is given, the limit itself in bounded mode.
Requested(args) ==
  IF TypeOf(args.limit) = "number" THEN args.limit.n ELSE BatchSize

\* A slip in the engine: the round always asks for a whole batch.
RoundMax_IgnoresLimit(args, cursor) ==
  Max(0, Min(BatchSize, TimelineLen - cursor))

\* The extractor yields at most what was asked for, at most one batch, and at
\* most what is left on the timeline past the cursor.
RoundMax(args, cursor) ==
  Max(0, Min(Min(Requested(args), BatchSize), TimelineLen - cursor))

\* Records are identified by their offset on the timeline.
Extracted(cursor, k) == [i \in 1..k |-> cursor + i - 1]

\* A slip in the engine: the loop goes on after any non-empty round.
LoopContinues_WhileNonEmpty(args, k) == args.limit = Str("all") /\ k > 0

\* The round loop goes on only in 'all' mode and only after a full batch.
LoopContinues(args, k) == args.limit = Str("all") /\ k = BatchSize

\* The update the engine raises for a round: a plain message, or a structured
\* one with the running count and the keep-alive flag.
UpdateKinds == {"string", "object"}
RoundUpdate(kind, collected) ==
  IF kind = "string"
    THEN Plain("Fetching posts")
    ELSE Detailed("Still working", collected, BatchSize, "true")

(* -------------------------------- Init --------------------------------- *)
\* The state after construction, with the given slots for open requests and a
\* caller that pages through a profile or does not.
InitOver(slots, paging) ==
  /\ transport = "connecting"
  /\ session = "open"
  /\ proc = "running"
  /\ exitCode = -1
  /\ sigint = [i \in Interrupts |-> "none"]
  /\ unhandled = FALSE
  /\ pc = [c \in slots |-> "idle"]
  /\ req = [c \in slots |-> NoRequest]
  /\ invoked = [c \in slots |-> 0]
  /\ engine = [c \in slots |-> "none"]
  /\ rounds = [c \in slots |-> <<>>]
  /\ posts = [c \in slots |-> <<>>]
  /\ raised = [c \in slots |-> <<>>]
  /\ notified = [c \in slots |-> <<>>]
  /\ response = [c \in slots |-> NoResponse]
  /\ caller = [paging |-> paging, log |-> <<>>]

Init == InitOver(Calls, FALSE)

(* ----------------------------- event loop ------------------------------ *)
\* The server runs on one thread: a handler that has returned has its response
\* written out within the same turn of the event loop, before the next event
\* (a request, a completed round, a signal, a completed close) is taken up.
TurnOpen == proc = "running" /\ \A c \in DOMAIN pc : pc[c] # "responded"

\* A promise rejects and nothing handles it: the runtime raises it as an
\* uncaught exception and the process ends with status 1.
UnhandledRejection ==
  /\ unhandled' = TRUE
  /\ proc' = "exited"
  /\ exitCode' = 1

(* ------------------------------- startup ------------------------------- *)
\* run(): await this.server.connect(transport)
Connect ==
  /\ TurnOpen
  /\ transport = "connecting"
  /\ transport' = "connected"
  /\ UNCHANGED <<session, proc, exitCode, sigint, unhandled, callVars>>
  /\ UNCHANGED caller

\* server.run().catch(console.error): a failed connect is logged, not rethrown.
ConnectFails ==
  /\ TurnOpen
  /\ transport = "connecting"
  /\ transport' = "failed"
  /\ UNCHANGED <<session, proc, exitCode, sigint, unhandled, callVars>>
  /\ UNCHANGED caller

(* ------------------------- the tool-call handler ----------------------- *)
\* A slip in the order of the checks: the arguments are validated first.
Dispatch_ArgsFirst(name, args) ==
  IF ~isValidFetchArgs(args) THEN "InvalidParams"
  ELSE IF name # ToolName THEN "MethodNotFound"
  ELSE "fetchPosts"

\* The handler up to its first await: which way it leaves.
Dispatch(name, args) ==
  IF name # ToolName THEN "MethodNotFound"
  ELSE IF ~isValidFetchArgs(args) THEN "InvalidParams"
  ELSE "fetchPosts"

\* A request arrives on call slot c and the handler runs to its first await.
CallTool(c, name, args) ==
  /\ TurnOpen
  /\ transport = "connected"
  /\ pc[c] = "idle"
  /\ req' = [req EXCEPT ![c] = [name |-> name, args |-> args]]
  /\ LET d == Dispatch(name, args) IN
       IF d = "fetchPosts"
         THEN /\ pc' = [pc EXCEPT ![c] = "fetching"]
              /\ invoked' = [invoked EXCEPT ![c] = @ + 1]
              /\ engine' = [engine EXCEPT ![c] = "running"]
              /\ UNCHANGED response
         ELSE /\ pc' = [pc EXCEPT ![c] = "responded"]
              /\ response' = [response EXCEPT ![c] =
                   IF d = "MethodNotFound"
                     THEN McpError(d, "Unknown tool")
                     ELSE McpError(d, "Invalid fetch arguments")]
              /\ UNCHANGED <<invoked, engine>>
  /\ UNCHANGED <<procVars, unhandled, rounds, posts, raised, notified>>
  /\ UNCHANGED caller

\* One extraction round of the engine for call c returns k records and raises
\* update u through the progress callback; the notification is emitted without
\* being awaited, and its delivery fails when the transport is gone (or for any
\* other reason), which nobody handles.  When the round loop ends, fetchPosts
\* resolves and the handler returns the success envelope.
FetchRound(c, k, kind, delivered) ==
  /\ TurnOpen
  /\ pc[c] = "fetching"
  /\ session = "open"
  /\ k \in 0..RoundMax(req[c].args, StartCursor(req[c].args) + Len(posts[c]))
  /\ (transport # "connected") => ~delivered
  /\ LET got == posts[c] \o Extracted(StartCursor(req[c].args) + Len(posts[c]), k)
         u == RoundUpdate(kind, Len(got))
     IN
       /\ posts' = [posts EXCEPT ![c] = got]
       /\ rounds' = [rounds EXCEPT ![c] = Append(@, k)]
       /\ raised' = [raised EXCEPT ![c] = Append(@, u)]
       /\ notified' = [notified EXCEPT ![c] = ProgressCallback(@, u)]
       /\ IF delivered
            THEN UNCHANGED <<unhandled, proc, exitCode>>
            ELSE UnhandledRejection
       /\ IF LoopContinues(req[c].args, k)
            THEN UNCHANGED <<pc, engine, response>>
            ELSE /\ pc' = [pc EXCEPT ![c] = "responded"]
                 /\ engine' = [engine EXCEPT ![c] = "resolved"]
                 /\ response' = [response EXCEPT ![c] = SuccessEnvelope(req[c].args, got)]
  /\ UNCHANGED <<transport, session, sigint, req, invoked>>
  /\ UNCHANGED caller

\* fetchPosts rejects with e (session unavailable, extraction error, anything
\* thrown); the handler's catch turns it into the soft-error response.
FetchFails(c, e) ==
  /\ TurnOpen
  /\ pc[c] = "fetching"
  /\ pc' = [pc EXCEPT ![c] = "responded"]
  /\ engine' = [engine EXCEPT ![c] = "rejected"]
  /\ response' = [response EXCEPT ![c] = SoftError(e)]
  /\ UNCHANGED <<procVars, unhandled, req, invoked, rounds, posts, raised, notified>>
  /\ UNCHANGED caller

\* What a caller keeps of a response: a caller that pages through a profile
\* persists each successful envelope, with the startFrom it had sent.
Received(who, args, r) ==
  IF who.paging /\ r.kind = "result" /\ ~r.isError
    THEN [who EXCEPT !.log = Append(@, [startFrom |-> args.startFrom,
                                        returned |-> Len(r.content.posts),
                                        pagination |-> r.content.pagination])]
    ELSE who

\* The startFrom values a paging caller sends next: any cursor to begin with,
\* the last response's nextStartFrom from then on.
ResumeFrom(who) ==
  IF who.log = <<>>
    THEN {Undef} \cup {Num(k) : k \in 0..MaxStart}
    ELSE {Num(who.log[Len(who.log)].pagination.nextStartFrom)}

\* The response has gone out; the slot is free for the next request.
Retire(c) ==
  /\ proc = "running"
  /\ pc[c] = "responded"
  /\ pc' = [pc EXCEPT ![c] = "idle"]
  /\ req' = [req EXCEPT ![c] = NoRequest]
  /\ invoked' = [invoked EXCEPT ![c] = 0]
  /\ engine' = [engine EXCEPT ![c] = "none"]
  /\ rounds' = [rounds EXCEPT ![c] = <<>>]
  /\ posts' = [posts EXCEPT ![c] = <<>>]
  /\ raised' = [raised EXCEPT ![c] = <<>>]
  /\ notified' = [notified EXCEPT ![c] = <<>>]
  /\ response' = [response EXCEPT ![c] = NoResponse]
  /\ caller' = Received(caller, req[c].args, response[c])
  /\ UNCHANGED <<procVars, unhandled>>

(* ------------------------------ shutdown ------------------------------- *)
\* A slip in cleanup: the transport is never closed before the exit.
SigintStep_SkipsServerClose(at) ==
  CASE at = "none" -> "instagramService.close"
    [] at = "instagramService.close" -> "exit"
    [] at = "server.close" -> "exit"

\* Where the SIGINT handler goes once the step it stands at has completed:
\* cleanup() awaits instagramService.close(), then server.close(); the handler
\* then calls process.exit(0).
SigintStep(at) ==
  CASE at = "none" -> "instagramService.close"
    [] at = "instagramService.close" -> "server.close"
    [] at = "server.close" -> "exit"

\* SIGINT is delivered: the handler starts and awaits the first close.
Interrupt(i) ==
  /\ TurnOpen
  /\ sigint[i] = "none"
  /\ \A j \in DOMAIN sigint : j < i => sigint[j] # "none"
  /\ sigint' = [sigint EXCEPT ![i] = SigintStep("none")]
  /\ UNCHANGED <<transport, session, proc, exitCode, unhandled, callVars>>
  /\ UNCHANGED caller

\* The close that handler i awaits completes; the handler moves on, and exits
\* the process with status 0 after the last one.
CloseCompletes(i) ==
  /\ TurnOpen
  /\ sigint[i] \in {"instagramService.close", "server.close"}
  /\ IF sigint[i] = "instagramService.close"
       THEN session' = "closed" /\ UNCHANGED transport
       ELSE transport' = "closed" /\ UNCHANGED session
  /\ LET next == SigintStep(sigint[i]) IN
       /\ sigint' = [sigint EXCEPT ![i] = next]
       /\ IF next = "exit"
            THEN proc' = "exited" /\ exitCode' = 0
            ELSE UNCHANGED <<proc, exitCode>>
  /\ UNCHANGED <<unhandled, callVars>>
  /\ UNCHANGED caller

\* The close that handler i awaits rejects: cleanup() rejects, the async SIGINT
\* listener rejects, and nothing handles that rejection.
CloseFails(i) ==
  /\ TurnOpen
  /\ sigint[i] \in {"instagramService.close", "server.close"}
  /\ sigint' = [sigint EXCEPT ![i] = "rejected"]
  /\ UnhandledRejection
  /\ UNCHANGED <<transport, session, callVars>>
  /\ UNCHANGED caller

\* The close that handler i awaits never settles: cleanup() stays pending and
\* the handler never reaches process.exit.
CloseHangs(i) ==
  /\ TurnOpen
  /\ sigint[i] \in {"instagramService.close", "server.close"}
  /\ sigint' = [sigint EXCEPT ![i] = "pending"]
  /\ UNCHANGED <<transport, session, proc, exitCode, unhandled, callVars>>
  /\ UNCHANGED caller

(* ----------------------------- specification --------------------------- *)
Next ==
  \/ Connect
  \/ ConnectFails
  \/ \E c \in DOMAIN pc, name \in ToolNames, args \in ArgValues : CallTool(c, name, args)
  \/ \E c \in DOMAIN pc, k \in 0..BatchSize, kind \in UpdateKinds, delivered \in BOOLEAN :
        FetchRound(c, k, kind, delivered)
  \/ \E c \in DOMAIN pc, e \in Thrown : FetchFails(c, e)
  \/ \E c \in DOMAIN pc : Retire(c)
  \/ \E i \in DOMAIN sigint : Interrupt(i)
  \/ \E i \in DOMAIN sigint : CloseCompletes(i)
  \/ \E i \in DOMAIN sigint : CloseFails(i)

Spec == Init /\ [][Next]_vars

\* The server with one more request slot than Calls, so that requests overlap,
\* and callers that send well-formed requests for one of two profiles.
PairCalls == 1..(MaxCalls + 1)
PairArgs ==
  {Args(u, l, Undef) : u \in {Str("alice"), Str("bob")}, l \in {Str("all"), Num(1)}}

InitPair == InitOver(PairCalls, FALSE)

NextPair ==
  \/ Connect
  \/ ConnectFails
  \/ \E c \in DOMAIN pc, args \in PairArgs : CallTool(c, ToolName, args)
  \/ \E c \in DOMAIN pc, k \in 0..BatchSize, kind \in UpdateKinds, delivered \in BOOLEAN :
        FetchRound(c, k, kind, delivered)
  \/ \E c \in DOMAIN pc, e \in Thrown : FetchFails(c, e)
  \/ \E c \in DOMAIN pc : Retire(c)
  \/ \E i \in DOMAIN sigint : Interrupt(i)
  \/ \E i \in DOMAIN sigint : CloseCompletes(i)
  \/ \E i \in DOMAIN sigint : CloseFails(i)

SpecPair == InitPair /\ [][NextPair]_vars

\* The server with a caller that pages through one profile: it sends its next
\* request once the previous one is answered, and resumes from the cursor the
\* last successful response gave it.
InitChain == InitOver(Calls, TRUE)

NextChain ==
  \/ Connect
  \/ ConnectFails
  \/ \E c \in DOMAIN pc, l \in {Undef, Str("all")} \cup NumericLimits, s \in ResumeFrom(caller) :
        /\ \A d \in DOMAIN pc : pc[d] = "idle"
        /\ Len(caller.log) < MaxChain
        /\ CallTool(c, ToolName, Args(Str("alice"), l, s))
  \/ \E c \in DOMAIN pc, k \in 0..BatchSize, kind \in UpdateKinds, delivered \in BOOLEAN :
        FetchRound(c, k, kind, delivered)
  \/ \E c \in DOMAIN pc, e \in Thrown : FetchFails(c, e)
  \/ \E c \in DOMAIN pc : Retire(c)
  \/ \E i \in DOMAIN sigint : Interrupt(i)
  \/ \E i \in DOMAIN sigint : CloseCompletes(i)
  \/ \E i \in DOMAIN sigint : CloseFails(i)

SpecChain == InitChain /\ [][NextChain]_vars

\* The server with closes that may never settle.  A close that stays pending
\* only rules out its own completion, so it adds behaviours only where
\* progress is the question.
NextLive ==
  \/ Next
  \/ \E i \in DOMAIN sigint : CloseHangs(i)

\* The event loop takes up every event that is ready: a response that is due
\* goes out, and a close that can still settle does settle.
FairSpec ==
  /\ Init /\ [][NextLive]_vars
  /\ \A c \in Calls : WF_vars(Retire(c))
  /\ \A i \in Interrupts : SF_vars(CloseCompletes(i) \/ CloseFails(i) \/ CloseHangs(i))

(* ================================ claims =============================== *)
Responded(c) == pc[c] = "responded"
IsSuccess(r) == r.kind = "result" /\ ~r.isError /\ r.content.type = "json"
IsSoftError(r) == r.kind = "result" /\ r.isError
IsForTool(c) == req[c].name = ToolName
Pagination(c) == response[c].content.pagination

\* The cursor as the claims read it: startFrom, or 0 when it is absent.
CursorOf(args) == IF args.startFrom = Undef THEN 0 ELSE args.startFrom.n

\* C1: every successful call with cursor s in which the engine returned n
\* records answers currentBatch.start = s, size = n, end = s + n and
\* nextStartFrom = end, in bounded mode and in 'all' mode.
C1_EnvelopeArithmetic ==
  \A c \in DOMAIN pc :
    (Responded(c) /\ IsSuccess(response[c])) =>
      LET s == CursorOf(req[c].args)
          n == Len(posts[c])
      IN /\ Pagination(c).currentBatch.start = s
         /\ Pagination(c).currentBatch.size = n
         /\ Pagination(c).currentBatch.end = s + n
         /\ Pagination(c).nextStartFrom = Pagination(c).currentBatch.end

\* A successful 'all' call resumed from a non-zero cursor over two rounds.
C1_Witness ==
  \E c \in DOMAIN pc :
    /\ Responded(c) /\ IsSuccess(response[c])
    /\ req[c].args.limit = Str("all")
    /\ req[c].args.startFrom = Num(1)
    /\ Len(rounds[c]) = 2
    /\ Pagination(c).currentBatch.end = 4

\* C2: for every successful bounded call (numeric limit), hasMore is true
\* exactly when the call returned 3 records, and false for 0, 1 or 2.
C2_HasMoreIffFullBatch ==
  \A c \in DOMAIN pc :
    (Responded(c) /\ IsSuccess(response[c]) /\ TypeOf(req[c].args.limit) = "number") =>
      /\ Pagination(c).hasMore = (Len(posts[c]) = 3)
      /\ Len(posts[c]) \in {0, 1, 2} => ~Pagination(c).hasMore

\* A bounded call that returned a full batch and reports hasMore.
C2_Witness ==
  \E c \in DOMAIN pc :
    /\ Responded(c) /\ IsSuccess(response[c])
    /\ req[c].args.limit = Num(3)
    /\ Len(posts[c]) = 3
    /\ Pagination(c).hasMore

\* The arguments C3 speaks of: username missing or not a string, or limit
\* present and neither a number nor "all", or startFrom present and no number.
IllTyped(args) ==
  \/ TypeOf(args.username) # "string"
  \/ (args.limit # Undef /\ TypeOf(args.limit) # "number" /\ args.limit # Str("all"))
  \/ (args.startFrom # Undef /\ TypeOf(args.startFrom) # "number")

\* C3: a get_instagram_posts call with ill-typed arguments fails with
\* InvalidParams; fetchPosts is never invoked for it and no progress
\* notification is emitted for it.
C3_IllTypedIsInvalidParams ==
  \A c \in DOMAIN pc :
    (pc[c] # "idle" /\ IsForTool(c) /\ IllTyped(req[c].args)) =>
      /\ Responded(c)
      /\ response[c].kind = "McpError"
      /\ response[c].code = "InvalidParams"
      /\ invoked[c] = 0
      /\ engine[c] = "none"
      /\ raised[c] = <<>>
      /\ notified[c] = <<>>

\* A call with an out-of-domain limit string was answered InvalidParams.
C3_Witness ==
  \E c \in DOMAIN pc :
    /\ Responded(c) /\ IsForTool(c)
    /\ req[c].args.limit = Str("many")
    /\ TypeOf(req[c].args.username) = "string"
    /\ req[c].args.startFrom = Undef
    /\ response[c].kind = "McpError"

\* C4: a limit that is neither 'all' nor an integer in [1,3] is rejected before
\* the engine is invoked: such a call never reaches fetchPosts.
C4_OutOfRangeLimitNeverFetched ==
  \A c \in DOMAIN pc :
    (/\ pc[c] # "idle" /\ IsForTool(c)
     /\ req[c].args.limit # Undef
     /\ req[c].args.limit # Str("all")
     /\ ~(TypeOf(req[c].args.limit) = "number" /\ req[c].args.limit.n \in 1..3)) =>
      invoked[c] = 0

\* C5: a call whose tool name is not get_instagram_posts fails with
\* MethodNotFound whatever its arguments; neither InvalidParams nor the engine
\* is reached.
C5_UnknownToolIsMethodNotFound ==
  \A c \in DOMAIN pc :
    (pc[c] # "idle" /\ ~IsForTool(c)) =>
      /\ Responded(c)
      /\ response[c].kind = "McpError"
      /\ response[c].code = "MethodNotFound"
      /\ invoked[c] = 0
      /\ engine[c] = "none"

\* An unknown tool called with arguments that would not validate.
C5_Witness ==
  \E c \in DOMAIN pc :
    /\ Responded(c) /\ ~IsForTool(c)
    /\ IllTyped(req[c].args)
    /\ response[c].code = "MethodNotFound"

ErrorPrefix == "Instagram error: "

\* C6: when fetchPosts fails, after any number of completed rounds, the handler
\* returns a completed response flagged isError whose only content is a text
\* beginning with "Instagram error: ", with no posts and no pagination.
C6_FailureIsSoftError ==
  \A c \in DOMAIN pc :
    engine[c] = "rejected" =>
      /\ Responded(c)
      /\ response[c].kind = "result"
      /\ response[c].isError
      /\ DOMAIN response[c].content = {"type", "text"}
      /\ response[c].content.type = "text"
      /\ Len(response[c].content.text) >= Len(ErrorPrefix)
      /\ SubSeq(response[c].content.text, 1, Len(ErrorPrefix)) = ErrorPrefix

\* fetchPosts failed after a completed round that had already yielded records.
C6_Witness ==
  \E c \in DOMAIN pc :
    /\ engine[c] = "rejected"
    /\ Len(rounds[c]) = 1
    /\ Len(posts[c]) = 3
    /\ IsSoftError(response[c])
    /\ response[c].content.text = "Instagram error: No active Instagram session"

\* C7: after startup no failure becomes an uncaught exception or an unhandled
\* rejection, whether of the engine, of a progress notification's delivery or
\* of a close during shutdown.
C7_NoUnhandledFault == ~unhandled

\* C8: the i-th 'progress' notification emitted for a call corresponds to the
\* i-th invocation of the progress callback: none reordered, duplicated or
\* dropped.
C8_ProgressInOrder ==
  \A c \in DOMAIN pc :
    /\ Len(notified[c]) = Len(raised[c])
    /\ \A i \in 1..Len(raised[c]) :
         /\ notified[c][i].method = "progress"
         /\ notified[c][i].params.message = raised[c][i].message
         /\ ("keepAlive" \in DOMAIN notified[c][i].params) = (raised[c][i].kind = "object")

\* A call whose engine raised a structured update and then a plain one.
C8_Witness ==
  \E c \in DOMAIN pc :
    /\ Len(raised[c]) = 2
    /\ raised[c][1].kind = "object"
    /\ raised[c][2].kind = "string"
    /\ Len(notified[c]) = 2

\* C9: each callback invocation produces exactly one notification; a plain
\* string m goes out as {message: m, progress: 0, total: 0}, a structured
\* update with its message, progress, total and keepAlive unchanged.
C9_ProgressForwarded ==
  \A c \in DOMAIN pc :
    /\ Len(notified[c]) = Len(raised[c])
    /\ \A i \in 1..Len(raised[c]) :
         LET u == raised[c][i]
             params == notified[c][i].params
         IN IF u.kind = "string"
              THEN params = [message |-> u.message, progress |-> 0, total |-> 0]
              ELSE params = [message |-> u.message, progress |-> u.progress,
                             total |-> u.total, keepAlive |-> u.keepAlive]

\* A structured update with a non-zero count was forwarded.
C9_Witness ==
  \E c \in DOMAIN pc :
    /\ Len(raised[c]) >= 1
    /\ raised[c][1].kind = "object"
    /\ raised[c][1].progress > 0
    /\ notified[c][1].params.progress > 0

\* C10: on an interrupt the session is released, then the transport is closed,
\* and only then does the process exit with status 0; it never exits with
\* status 0 before both closes have completed.
C10_ShutdownOrder ==
  /\ (proc = "exited" /\ exitCode = 0) => (session = "closed" /\ transport = "closed")
  /\ transport = "closed" => session = "closed"
  /\ \A i \in DOMAIN sigint : sigint[i] \in {"server.close", "exit"} => session = "closed"

\* The process has exited with status 0 from the SIGINT handler.
C10_Witness ==
  /\ proc = "exited" /\ exitCode = 0
  /\ \E i \in DOMAIN sigint : sigint[i] = "exit"

\* C11: once an interrupt signal is received the process eventually exits,
\* also with an 'all' fetch in flight and also when releasing the session or
\* closing the transport fails or never completes.
C11_InterruptLeadsToExit ==
  (\E i \in Interrupts : sigint[i] # "none") ~> (proc = "exited")

\* C12: two invocations of get_instagram_posts for the same username are never
\* inside the engine at the same time: the second one is delayed or rejected.
C12_SameProfileSerialized ==
  \A c1 \in DOMAIN pc, c2 \in DOMAIN pc :
    (c1 # c2 /\ engine[c1] = "running" /\ engine[c2] = "running") =>
      req[c1].args.username # req[c2].args.username

\* C13: for a bounded call with limit in [1,3], the currentBatch.size of a
\* successful response never exceeds limit.
C13_SizeWithinLimit ==
  \A c \in DOMAIN pc :
    (/\ Responded(c) /\ IsSuccess(response[c])
     /\ TypeOf(req[c].args.limit) = "number"
     /\ req[c].args.limit.n \in 1..3) =>
      Pagination(c).currentBatch.size <= req[c].args.limit.n

\* A call with limit 2 answered with exactly two records.
C13_Witness ==
  \E c \in DOMAIN pc :
    /\ Responded(c) /\ IsSuccess(response[c])
    /\ req[c].args.limit = Num(2)
    /\ Pagination(c).currentBatch.size = 2

\* The records returned over the first n responses of the caller's log.
RECURSIVE TotalReturned(_, _)
TotalReturned(log, n) == IF n = 0 THEN 0 ELSE TotalReturned(log, n - 1) + log[n].returned

\* C14: in a sequence of successful calls for one profile in which each later
\* call passes the previous response's nextStartFrom, the cursor never
\* decreases, each call starts where the previous one ended, and the last
\* nextStartFrom is the initial cursor plus all records returned.
C14_CursorChain ==
  LET log == caller.log IN
    /\ \A i \in 1..Len(log) :
         /\ log[i].pagination.currentBatch.start = CursorOf(log[i])
         /\ log[i].pagination.nextStartFrom >= log[i].pagination.currentBatch.start
    /\ \A i \in 1..(Len(log) - 1) :
         /\ log[i + 1].pagination.currentBatch.start = log[i].pagination.currentBatch.end
         /\ log[i + 1].pagination.currentBatch.start >= log[i].pagination.currentBatch.start
    /\ Len(log) > 0 =>
         log[Len(log)].pagination.nextStartFrom
           = CursorOf(log[1]) + TotalReturned(log, Len(log))

\* Three chained calls that walked the whole timeline: 3 records, 1 record,
\* then none.
C14_Witness ==
  /\ Len(caller.log) = 3
  /\ caller.log[1].returned = 3
  /\ caller.log[2].returned = 1
  /\ caller.log[3].returned = 0
  /\ caller.log[3].pagination.nextStartFrom = 4

\* The number of records of the first n rounds, and those records in round
\* order, each round's records in the order the extractor gave them.
RECURSIVE SumOfRounds(_, _)
SumOfRounds(counts, n) == IF n = 0 THEN 0 ELSE SumOfRounds(counts, n - 1) + counts[n]
RECURSIVE RecordsOfRounds(_, _, _)
RecordsOfRounds(start, counts, n) ==
  IF n = 0 THEN <<>>
  ELSE RecordsOfRounds(start, counts, n - 1)
         \o [i \in 1..counts[n] |-> start + SumOfRounds(counts, n - 1) + i - 1]

\* C15: for limit 'all' the response's records are the per-round returns
\* concatenated in round order, their count is the sum of the per-round counts,
\* and the loop stops at the first round that returns fewer than 3 records.
C15_AllModeAccumulates ==
  \A c \in DOMAIN pc :
    (pc[c] # "idle" /\ IsForTool(c) /\ req[c].args.limit = Str("all")) =>
      LET n == Len(rounds[c]) IN
        /\ \A i \in 1..(n - 1) : rounds[c][i] = 3
        /\ (engine[c] = "running" /\ n > 0) => rounds[c][n] = 3
        /\ n <= (TimelineLen \div 3) + 1
        /\ (Responded(c) /\ IsSuccess(response[c])) =>
             /\ n > 0 /\ rounds[c][n] < 3
             /\ Len(response[c].content.posts) = SumOfRounds(rounds[c], n)
             /\ response[c].content.posts
                  = RecordsOfRounds(CursorOf(req[c].args), rounds[c], n)

\* An 'all' call that ended after a full round and a round of one record.
C15_Witness ==
  \E c \in DOMAIN pc :
    /\ Responded(c) /\ IsSuccess(response[c])
    /\ req[c].args.limit = Str("all")
    /\ rounds[c] = <<3, 1>>
    /\ response[c].content.posts = <<0, 1, 2, 3>>

\* The four ways a call can end.
EndsMethodNotFound(r) == r.kind = "McpError" /\ r.code = "MethodNotFound"
EndsInvalidParams(r) == r.kind = "McpError" /\ r.code = "InvalidParams"
EndsSuccess(r) ==
  /\ r.kind = "result" /\ ~r.isError
  /\ DOMAIN r.content = {"type", "posts", "pagination"}
EndsSoftError(r) ==
  /\ r.kind = "result" /\ r.isError
  /\ DOMAIN r.content = {"type", "text"}
Outcomes(r) ==
  {o \in {"MethodNotFound", "InvalidParams", "success", "softError"} :
     \/ o = "MethodNotFound" /\ EndsMethodNotFound(r)
     \/ o = "InvalidParams" /\ EndsInvalidParams(r)
     \/ o = "success" /\ EndsSuccess(r)
     \/ o = "softError" /\ EndsSoftError(r)}

\* C16: every call ends in exactly one of MethodNotFound, InvalidParams, a
\* success payload with posts and pagination, or a soft error flagged isError;
\* fetchPosts was invoked once for a success or soft error and not at all for
\* a protocol error; no response is both a success payload and an error.
C16_OneOutcome ==
  \A c \in DOMAIN pc :
    Responded(c) =>
      LET r == response[c] IN
        /\ Cardinality(Outcomes(r)) = 1
        /\ (EndsSuccess(r) \/ EndsSoftError(r)) => invoked[c] = 1
        /\ (EndsMethodNotFound(r) \/ EndsInvalidParams(r)) => invoked[c] = 0
        /\ ~(r.kind = "result" /\ r.isError /\ "posts" \in DOMAIN r.content)

\* A call that ended as a soft error after fetchPosts was invoked once.
C16_Witness ==
  \E c \in DOMAIN pc :
    /\ Responded(c)
    /\ Outcomes(response[c]) = {"softError"}
    /\ invoked[c] = 1

\* C17: the browser session is never released while a fetchPosts call that
\* borrowed it is still in flight: an interrupt closes the session only after
\* the fetch has stopped at a round boundary.
C17_SessionHeldWhileFetching ==
  ~(session = "closed" /\ \E c \in DOMAIN pc : pc[c] = "fetching")

\* C18: a successful 'all' response whose round loop ended on a short round
\* (fewer than 3 records, possibly none) reports hasMore = FALSE, whatever the
\* accumulated total is.
C18_ExhaustedAllHasNoMore ==
  \A c \in DOMAIN pc :
    ( /\ Responded(c) /\ IsSuccess(response[c])
      /\ req[c].args.limit = Str("all")
      /\ rounds[c] # <<>>
      /\ rounds[c][Len(rounds[c])] < 3 )
      => ~Pagination(c).hasMore

====
